---------------------------- MODULE Spec2Model ----------------------------
(***************************************************************************)
(* A model of the staff-directory crawler (src/staff_crawler.py):          *)
(*   - _analyze_content_type, the content classifier;                      *)
(*   - _detect_url_pagination, the URL pagination detector;                *)
(*   - _extract_from_html_patterns, the pattern extractor;                 *)
(*   - extract and extract_many, the single-page pipeline and its fan-out; *)
(*   - extract_with_pagination, the pagination controller, and the session *)
(*     identifiers of several calls of it.                                 *)
(* The page fetcher (crawler.arun), the semantic extractor and             *)
(* kill_session are the environment: every outcome they can produce is a   *)
(* nondeterministic choice.  One action is one atomic segment of a         *)
(* coroutine, from the completion of one await to the issue of the next.   *)
(***************************************************************************)
EXTENDS Integers, Sequences, FiniteSets, TLC

(***************************************************************************)
(* Bounds of the model.                                                    *)
(***************************************************************************)
MaxPagesBound == 3      \* max_pages is drawn from 0..MaxPagesBound
MaxRecs == 2            \* records on one page of an interactive run
MaxTaskRecs == 1        \* records on one page of the fan-out
MaxLastPage == 4        \* largest page number a first page links to (Spec)
MaxEmailsHtml == 14     \* distinct addresses in the markup (SpecClassify)
MaxEmailsMd == 7        \* distinct addresses in the markdown (SpecClassify)
MaxLinks == 2           \* pagination links in the markup (SpecDetect)
MaxPageNum == 3         \* page number of a link (SpecDetect)
MaxFrags == 2           \* fragments of the markup the expressions match (SpecPattern)
NumRuns == 2            \* calls of extract_with_pagination (SpecSessions)
MaxSessPages == 2       \* config.max_pages of each of those calls (SpecSessions)

VARIABLES
    \* ---- extract_with_pagination, one call
    max_pages,      \* config.max_pages
    pc,             \* position of the coroutine
    page_num,       \* page_num
    use_hybrid,     \* use_hybrid: "None", "True" or "False"
    all_members,    \* all_members
    outcome,        \* "running", "returned", "raised" or "cancelled"
    result,         \* the list handed to the caller on return
    sess_bound,     \* a fetch bound to session_id has been issued
    kill_called,    \* kill_session(session_id) has been called
    \* ---- extract_many, called from the URL branch
    urls,           \* urls_to_fetch
    tpc,            \* position of each per-URL extract coroutine
    results,        \* the result list asyncio.gather fills
    \* ---- history of the call (read by the properties only)
    plan,           \* what _detect_url_pagination returned
    pages,          \* the record list extracted on each page, in page order
    clicks,         \* next-page fetches issued
    em_called,      \* extract_many has been called
    err_page,       \* page on which a fetch or interaction error happened (0: none)
    touts,          \* how the extract coroutine of each URL ended
    inverted,       \* some extract ended before one of an earlier URL
    no_next,        \* page whose next-page click found no control (0: none)
    applied,        \* the strategy applied to each page, in page order
    classified,     \* calls of _analyze_content_type made by the run
    nav_pages,      \* pages n >= 2 extracted after a fetch that navigates
    bad_pages,      \* pages whose semantic response had no expected structure
    kill_outcome,   \* how kill_session ended: "uncalled", "ok" or "raised"
    \* ---- calls of the pure functions (SpecClassify, SpecDetect, SpecPattern)
    c_in, c_out,    \* _analyze_content_type: inputs and returned tuple
    d_in, d_out,    \* _detect_url_pagination: inputs and returned value
    p_in, p_out,    \* _extract_from_html_patterns: the markup and the returned list
    \* ---- extract, one direct call (SpecExtract)
    e_pc,           \* position of the coroutine
    e_out,          \* how the call ended
    e_env,          \* history of the call (read by the properties only)
    \* ---- the sessions of several calls of extract_with_pagination (SpecSessions)
    s_run,          \* each call: its crawler object, position, page and session_id
    s_killed,       \* the session ids kill_session has been called for
    s_fetches       \* the fetches issued: by which call, bound to which session

runVars == <<max_pages, pc, page_num, use_hybrid, all_members, outcome, result,
             sess_bound, kill_called, urls, tpc, results,
             plan, pages, clicks, em_called, err_page, touts, inverted,
             no_next, applied, classified, nav_pages, bad_pages, kill_outcome>>
classifyVars == <<c_in, c_out>>
detectVars == <<d_in, d_out>>
patternVars == <<p_in, p_out>>
extractVars == <<e_pc, e_out, e_env>>
sessVars == <<s_run, s_killed, s_fetches>>
otherVars == <<patternVars, extractVars, sessVars>>
vars == <<runVars, classifyVars, detectVars, otherVars>>

(***************************************************************************)
(* Generic helpers.                                                        *)
(***************************************************************************)
RECURSIVE Flatten(_)
Flatten(ss) == IF ss = <<>> THEN <<>> ELSE Head(ss) \o Flatten(Tail(ss))

Max2(a, b) == IF a >= b THEN a ELSE b

Take(s, n) == SubSeq(s, 1, IF n < Len(s) THEN n ELSE Len(s))

SeqsUpTo(S, n) == UNION {[1..k -> S] : k \in 0..n}

(***************************************************************************)
(* _analyze_content_type (src/staff_crawler.py 162-178).  The two strings  *)
(* enter through the number of distinct addresses re.findall yields in     *)
(* each; an absent or empty markdown is NoMarkdown and counts 0.           *)
(***************************************************************************)
NoMarkdown == -1

EmailsMd(markdown) == IF markdown = NoMarkdown THEN 0 ELSE markdown

IsEmbeddedGe(emails_html, emails_md) ==
    emails_html >= 10 /\ emails_html > emails_md * 3

IsEmbedded(emails_html, emails_md) ==
    emails_html > 10 /\ emails_html > emails_md * 3

IsVisible(emails_md) == emails_md > 5

AnalyzeContentType(html, markdown) ==
    LET emails_html == html
        emails_md == EmailsMd(markdown)
    IN  IF IsEmbedded(emails_html, emails_md)
          THEN <<"embedded", emails_html>>
          ELSE IF IsVisible(emails_md)
                 THEN <<"visible", emails_md>>
                 ELSE <<"llm", Max2(emails_html, emails_md)>>

ClassifyIdle == <<"idle", 0>>

ClassifyInit ==
    /\ c_in \in [html : 0..MaxEmailsHtml, markdown : {NoMarkdown} \cup 0..MaxEmailsMd]
    /\ c_out = ClassifyIdle

ClassifyCall ==
    /\ c_out = ClassifyIdle
    /\ c_out' = AnalyzeContentType(c_in.html, c_in.markdown)
    /\ UNCHANGED <<c_in, runVars, detectVars, otherVars>>


(***************************************************************************)
(* _detect_url_pagination (src/staff_crawler.py 306-370).                  *)
(* The markup enters through its href attributes, in document order.  An   *)
(* href is [path, query]: path "" is a query-only relative reference, and  *)
(* query is the sequence of <<key, number>> parameters.  A URL is          *)
(* [host, path, query].                                                    *)
(***************************************************************************)
NoUrls == [found |-> FALSE, urls |-> <<>>]          \* return None
SomeUrls(us) == [found |-> TRUE, urls |-> us]       \* return urls

\* `if page_urls:' (line 463): None and the empty list are both false
Truthy(r) == r.found /\ r.urls # <<>>

BaseUrl == [host |-> "ex.org", path |-> "/staff", query |-> <<>>]

\* the parameter spellings that occur in the modelled markup
LinkKeys == {"page", "page_no", "p", "const_page", "Page", "pageno", "q"}

\* re.IGNORECASE (line 331) on the spellings of LinkKeys
LowerKey(k) == IF k = "Page" THEN "page" ELSE k

\* the parameter names the three patterns accept (lines 322-326):
\* page[_]?(?:no)?  |  p  |  const_page
PatternKeys(i) ==
    CASE i = 1 -> {"page", "page_", "pageno", "page_no"}
      [] i = 2 -> {"p"}
      [] i = 3 -> {"const_page"}

\* the four keys the synthesis looks for, case-sensitively (line 362)
KnownKeys == <<"page", "page_no", "p", "const_page">>

\* [^"']* is greedy: a pattern captures the last parameter it accepts
MatchIndex(href, i) ==
    LET hits == {j \in 1..Len(href.query) :
                    LowerKey(href.query[j][1]) \in PatternKeys(i)}
    IN  IF hits = {} THEN 0 ELSE CHOOSE j \in hits : \A h \in hits : h <= j

\* re.findall(pattern, html): <<href, page_num>> per matching href, left to right
RECURSIVE FindAll(_, _)
FindAll(i, html) ==
    IF html = <<>> THEN <<>>
    ELSE LET href == Head(html)
             j == MatchIndex(href, i)
         IN  (IF j = 0 THEN <<>> ELSE << <<href, href.query[j][2]>> >>)
             \o FindAll(i, Tail(html))

\* urljoin(base_url, href) (line 337)
UrlJoin(base, href) ==
    [host |-> base.host,
     path |-> IF href.path = "" THEN base.path ELSE href.path,
     query |-> href.query]

\* a dict as the sequence of its <<key, value>> items in insertion order
DictIndex(d, k) ==
    IF \E j \in 1..Len(d) : d[j][1] = k
      THEN CHOOSE j \in 1..Len(d) : d[j][1] = k
      ELSE 0

DictHas(d, k) == DictIndex(d, k) # 0

DictGet(d, k) == d[DictIndex(d, k)][2]

DictSet(d, k, v) ==
    IF DictHas(d, k) THEN [d EXCEPT ![DictIndex(d, k)] = <<k, v>>]
    ELSE Append(d, <<k, v>>)

\* lines 330-338: page_urls[page_num] = full_url for every match
RECURSIVE CollectPageUrls(_, _, _)
CollectPageUrls(matches, base, page_urls) ==
    IF matches = <<>> THEN page_urls
    ELSE CollectPageUrls(Tail(matches), base,
            DictSet(page_urls, Head(matches)[2], UrlJoin(base, Head(matches)[1])))

\* parse_qs (line 361): key -> list of its values, keys in order of appearance
RECURSIVE ParseQs(_, _)
ParseQs(q, acc) ==
    IF q = <<>> THEN acc
    ELSE LET k == Head(q)[1]
             v == Head(q)[2]
         IN  ParseQs(Tail(q),
                IF DictHas(acc, k) THEN DictSet(acc, k, Append(DictGet(acc, k), v))
                ELSE DictSet(acc, k, <<v>>))

\* urlencode(query, doseq=True) (line 366)
RECURSIVE UrlEncode(_)
UrlEncode(query) ==
    IF query = <<>> THEN <<>>
    ELSE LET k == Head(query)[1]
             vs == Head(query)[2]
         IN  [j \in 1..Len(vs) |-> <<k, vs[j]>>] \o UrlEncode(Tail(query))

\* lines 362-365: the first known key present in the query gets the page number
RECURSIVE SubstitutePage(_, _, _)
SubstitutePage(query, keys, page) ==
    IF keys = <<>> THEN query
    ELSE IF DictHas(query, Head(keys)) THEN DictSet(query, Head(keys), <<page>>)
    ELSE SubstitutePage(query, Tail(keys), page)

\* lines 361-368: the URL built for a page number that was not observed
SynthesizeUrl(sample_url, page) ==
    LET query == SubstitutePage(ParseQs(sample_url.query, <<>>), KnownKeys, page)
    IN  [host |-> sample_url.host, path |-> sample_url.path,
         query |-> UrlEncode(query)]

DetectUrlPagination(html, base_url) ==
    LET matches == FindAll(1, html) \o FindAll(2, html) \o FindAll(3, html)
        page_urls == CollectPageUrls(matches, base_url, <<>>)
        nums == {page_urls[j][1] : j \in 1..Len(page_urls)}
        max_page == CHOOSE n \in nums : \A m \in nums : m <= n
        sample_url == IF DictHas(page_urls, 2) THEN DictGet(page_urls, 2)
                      ELSE page_urls[1][2]
    IN  IF page_urls = <<>> THEN NoUrls
        ELSE IF max_page <= 1 THEN NoUrls
        ELSE SomeUrls([page \in 1..max_page |->
                          IF DictHas(page_urls, page) THEN DictGet(page_urls, page)
                          ELSE SynthesizeUrl(sample_url, page)])

Hrefs == [path : {"", "/dir"},
          query : {<< <<k, n>> >> : k \in LinkKeys, n \in 0..MaxPageNum}]

DetectIdle == [found |-> FALSE, urls |-> <<"idle">>]

DetectInit ==
    /\ d_in \in SeqsUpTo(Hrefs, MaxLinks)
    /\ d_out = DetectIdle

DetectCall ==
    /\ d_out = DetectIdle
    /\ d_out' = DetectUrlPagination(d_in, BaseUrl)
    /\ UNCHANGED <<d_in, runVars, classifyVars, otherVars>>

(***************************************************************************)
(* _extract_from_html_patterns (src/staff_crawler.py 93-160).  The markup  *)
(* enters as the sequence, in document order, of the fragments one of the  *)
(* three regular expressions matches: kind says which expression, email,   *)
(* name and role are its groups.  A name or a role is the tuple of its     *)
(* characters; an address is its lower-case local part and whether the     *)
(* markup writes it in capitals (the domain is the same for all).          *)
(***************************************************************************)
NoRole == <<>>          \* group 3 did not take part in the match / role=None

Lower(email) == [email EXCEPT !.caps = FALSE]

RECURSIVE LStrip(_, _)
LStrip(s, cs) == IF s # <<>> /\ Head(s) \in cs THEN LStrip(Tail(s), cs) ELSE s

RECURSIVE RStrip(_, _)
RStrip(s, cs) ==
    IF s # <<>> /\ s[Len(s)] \in cs THEN RStrip(SubSeq(s, 1, Len(s) - 1), cs) ELSE s

Whitespace == {" "}

Strip(s) == RStrip(LStrip(s, Whitespace), Whitespace)

StartsWith(s, p) == Len(s) >= Len(p) /\ SubSeq(s, 1, Len(p)) = p

\* the alternatives of ^(Mr\.|Mrs\.|Ms\.|Dr\.|Prof\.), in their order
Honorifics == << <<"M", "r", ".">>, <<"M", "r", "s", ".">>, <<"M", "s", ".">>,
                 <<"D", "r", ".">>, <<"P", "r", "o", "f", ".">> >>

\* re.sub(r'^(Mr\.|Mrs\.|Ms\.|Dr\.|Prof\.)\s*', '', name)
RemoveHonorific(name) ==
    LET hits == {i \in 1..Len(Honorifics) : StartsWith(name, Honorifics[i])}
    IN  IF hits = {} THEN name
        ELSE LET h == Honorifics[CHOOSE i \in hits : \A j \in hits : i <= j]
             IN  LStrip(SubSeq(name, Len(h) + 1, Len(name)), Whitespace)

HasAt(name) == \E i \in 1..Len(name) : name[i] = "@"

GenericPatterns == {"info", "contact", "office", "admin", "school", "support"}

\* any(email.startswith(p) for p in generic_patterns), on a lower-cased address
IsGeneric(email) == email.local \in GenericPatterns

Decode(c) == IF c = "&amp;" THEN "&" ELSE IF c = "&nbsp;" THEN " " ELSE c

RECURSIVE CollapseSpaces(_)
CollapseSpaces(s) ==
    IF Len(s) < 2 THEN s
    ELSE IF s[1] = " " /\ s[2] = " " THEN CollapseSpaces(Tail(s))
    ELSE <<s[1]>> \o CollapseSpaces(Tail(s))

\* lines 136-143: the role text, cleaned, or None
CleanRole(role) ==
    IF role = NoRole THEN NoRole
    ELSE LET stripped == Strip(role)
             trimmed == RStrip(LStrip(stripped, {",", " ", "*", "-"}), {",", " ", "*"})
             decoded == [i \in 1..Len(trimmed) |-> Decode(trimmed[i])]
             cleaned == Strip(CollapseSpaces(decoded))
         IN  IF stripped = <<>> THEN NoRole
             ELSE IF Len(cleaned) <= 1 THEN NoRole ELSE cleaned

\* rule, the rule that emitted the record, is history the properties read
StaffMember(name, role, email, rule) ==
    [name |-> name, role |-> role, email |-> email, rule |-> rule]

Emit(acc, member) ==
    [members |-> Append(acc.members, member),
     seen_emails |-> acc.seen_emails \cup {member.email}]

\* lines 105-111, one match of the aria-label expression
AriaMatch(m, acc) ==
    LET email == Lower(m.email)
        name == Strip(m.name)
    IN  IF email \notin acc.seen_emails /\ Len(name) >= 2
        THEN Emit(acc, StaffMember(name, NoRole, email, "aria"))
        ELSE acc

\* lines 116-145, one match of the mailto expression
MailtoMatch(m, acc) ==
    LET email == Lower(m.email)
        name == Strip(m.name)
        name_clean == Strip(RemoveHonorific(name))
        marked == [acc EXCEPT !.seen_emails = @ \cup {email}]
    IN  IF IsGeneric(email) THEN acc
        ELSE IF HasAt(m.name) THEN acc
        ELSE IF email \in acc.seen_emails THEN acc
        ELSE IF Len(name_clean) < 2 THEN marked
        ELSE Emit(marked, StaffMember(name, CleanRole(m.role), email, "mailto"))

\* lines 151-158, one match of the JSON expression
JsonMatch(m, acc) ==
    LET email == Lower(m.email)
        name_clean == Strip(RemoveHonorific(m.name))
    IN  IF email \notin acc.seen_emails /\ Len(name_clean) >= 2
        THEN Emit(acc, StaffMember(Strip(m.name), NoRole, email, "json"))
        ELSE acc

Match(rule, m, acc) ==
    CASE rule = "aria" -> AriaMatch(m, acc)
      [] rule = "mailto" -> MailtoMatch(m, acc)
      [] rule = "json" -> JsonMatch(m, acc)

\* for match in re.finditer(pattern, html, ...)
RECURSIVE FindIter(_, _, _)
FindIter(rule, html, acc) ==
    IF html = <<>> THEN acc
    ELSE FindIter(rule, Tail(html),
                  IF Head(html).kind = rule THEN Match(rule, Head(html), acc) ELSE acc)

NoneSeen == [members |-> <<>>, seen_emails |-> {}]

ExtractJsonFirst(html) ==
    FindIter("mailto", html, FindIter("aria", html, FindIter("json", html, NoneSeen))).members

ExtractFromHtmlPatterns(html) ==
    FindIter("json", html, FindIter("mailto", html, FindIter("aria", html, NoneSeen))).members

\* seen_emails (line 99) as the three loops leave it
SeenEmails(html) ==
    FindIter("json", html, FindIter("mailto", html, FindIter("aria", html, NoneSeen))).seen_emails

Addresses == {[local |-> "ann", caps |-> FALSE], [local |-> "ann", caps |-> TRUE],
              [local |-> "info", caps |-> FALSE]}

Names == {<<"D", "r", ".", " ", "A", "l">>, <<"D", "r", ".", " ", "A">>,
          <<"D", "r", ".">>, <<" ", "D", "r", ".">>, <<"a", "@", "x">>}

Roles == {NoRole, <<"-", " ", "T", "&amp;", "A", " ">>}

Fragments ==
    [kind : {"aria", "json"}, email : Addresses, name : Names, role : {NoRole}]
    \cup [kind : {"mailto"}, email : Addresses, name : Names, role : Roles]

PatternIdle == <<[name |-> <<>>, role |-> NoRole,
                  email |-> [local |-> "idle", caps |-> FALSE], rule |-> "idle"]>>

PatternInit ==
    /\ p_in \in SeqsUpTo(Fragments, MaxFrags)
    /\ p_out = PatternIdle

PatternCall ==
    /\ p_out = PatternIdle
    /\ p_out' = ExtractFromHtmlPatterns(p_in)
    /\ UNCHANGED <<p_in, runVars, classifyVars, detectVars, extractVars, sessVars>>

(***************************************************************************)
(* What the environment hands back.                                        *)
(***************************************************************************)
NoEmail == "None"

\* StaffMember (src/models.py 5-9), role left out: nothing modelled reads it
Members == {[name |-> "Ann", email |-> "ann@x.org"],
            [name |-> "Bob", email |-> "bob@x.org"],
            [name |-> "Cy", email |-> NoEmail]}

\* the record lists one page can yield: up to n distinct members
RecordLists(n) ==
    {s \in SeqsUpTo(Members, n) : \A i, j \in 1..Len(s) : s[i] = s[j] => i = j}

PageContents == RecordLists(MaxRecs)

TaskContents == RecordLists(MaxTaskRecs)

\* crawler.arun: result.success, not result.success, or an exception
FetchOutcomes == {"ok", "failed", "raised"}

\* <<distinct addresses in result.html, in the markdown>> of a fetched page
PageSignals == {[html |-> 20, markdown |-> 2],
                [html |-> 0, markdown |-> 8],
                [html |-> 3, markdown |-> 1]}

\* extracted_content: absent or empty; not JSON; {"staff_members": [...]};
\* [{"staff_members": [...]}]; [member, ...]; any other JSON value; a list
\* with an element StaffMember(**member) rejects
ResponsesOf(contents) ==
    [shape : {"dict", "list_of_dict", "flat_list"}, members : contents]
    \cup [shape : {"none", "not_json", "other_json", "bad_member"}, members : {<<>>}]

Responses == ResponsesOf(PageContents)

TaskResponses == ResponsesOf(TaskContents)

\* how a coroutine ended: a returned list, or an exception
Returned(members) == [kind |-> "ok", members |-> members, error |-> ""]
Raised(what) == [kind |-> "exc", members |-> <<>>, error |-> what]
Pending == [kind |-> "pending", members |-> <<>>, error |-> ""]

\* lines 289-299 (and 244-254): the three shapes, anything else is []
MembersData(r) ==
    IF r.shape \in {"dict", "list_of_dict", "flat_list"} THEN r.members ELSE <<>>

\* a response that is present but has none of the three structures
UnexpectedStructure(r) == r.shape \in {"not_json", "other_json", "bad_member"}

\* _parse_extracted_content (lines 281-304)
ParseExtractedContent(r) ==
    IF r.shape = "none" THEN Returned(<<>>)
    ELSE IF r.shape = "not_json" THEN Returned(<<>>)
    ELSE IF r.shape = "bad_member" THEN Raised("ValidationError")
    ELSE Returned(MembersData(r))

\* extract with the tolerant parse: a response that is not JSON gives []
ExtractParseLenient(r) ==
    IF r.shape \in {"none", "not_json"} THEN Returned(<<>>)
    ELSE IF r.shape = "bad_member" THEN Raised("ValidationError")
    ELSE Returned(MembersData(r))

\* the parse inlined in extract (lines 237-257)
ExtractParse(r) ==
    IF r.shape = "none" THEN Returned(<<>>)
    ELSE IF r.shape = "not_json" THEN Raised("RuntimeError")
    ELSE IF r.shape = "bad_member" THEN Raised("ValidationError")
    ELSE Returned(MembersData(r))

\* {m.email for m in members if m.email} (lines 560-561)
EmailsOf(members) ==
    {members[i].email : i \in 1..Len(members)} \ {NoEmail}

\* the pattern output returned whenever the page is embedded
PatternResultAlways(content_type, members) == content_type = "embedded"

\* lines 213-218: the pattern output is returned when the page is embedded
\* and the pattern extractor found records

PatternResultSuffices(content_type, members) ==
    content_type = "embedded" /\ members # <<>>

(***************************************************************************)
(* extract (lines 180-257), as run by extract_many: one coroutine per URL. *)
(***************************************************************************)
\* asyncio.gather (line 270) puts each result at its task's input position
GatherStoreByCompletion(rs, i, r) ==
    LET free == {j \in 1..Len(rs) : rs[j] = Pending}
    IN  [rs EXCEPT ![CHOOSE j \in free : \A k \in free : j <= k] = r]

GatherStore(rs, i, r) == [rs EXCEPT ![i] = r]

\* an extract coroutine returns or raises: gather records how it ended
TaskEnds(i, r) ==
    /\ tpc' = [tpc EXCEPT ![i] = "done"]
    /\ results' = GatherStore(results, i, r)
    /\ touts' = [touts EXCEPT ![i] = r]
    /\ inverted' = (inverted \/ \E j \in 1..(i - 1) : tpc[j] # "done")

\* the baseline fetch returns (lines 198-218)
TaskBaselineDone(i) ==
    /\ pc = "fanout"
    /\ i \in 1..Len(tpc)
    /\ tpc[i] = "baseline"
    /\ \E o \in FetchOutcomes :
         \/ /\ o = "failed"
            /\ TaskEnds(i, Raised("RuntimeError"))
         \/ /\ o = "raised"
            /\ TaskEnds(i, Raised("FetchException"))
         \/ /\ o = "ok"
            /\ \E sig \in PageSignals :
                 LET content_type == AnalyzeContentType(sig.html, sig.markdown)[1]
                     \* _extract_from_html_patterns(html), run only when embedded
                     patterns == IF content_type = "embedded" THEN TaskContents
                                 ELSE {<<>>}
                 IN  \E members \in patterns :
                       IF PatternResultSuffices(content_type, members)
                         THEN TaskEnds(i, Returned(members))
                         ELSE /\ tpc' = [tpc EXCEPT ![i] = "llm"]
                              /\ UNCHANGED <<results, touts, inverted>>
    /\ UNCHANGED <<max_pages, pc, page_num, use_hybrid, all_members, outcome,
                   result, sess_bound, kill_called, urls, plan, pages, clicks,
                   em_called, err_page,
                   no_next, applied, classified,
                   nav_pages, bad_pages, kill_outcome, classifyVars, detectVars, otherVars>>

\* the fetch with the extraction strategy returns (lines 232-257)
TaskLlmDone(i) ==
    /\ pc = "fanout"
    /\ i \in 1..Len(tpc)
    /\ tpc[i] = "llm"
    /\ \E o \in FetchOutcomes :
         \/ /\ o = "failed"
            /\ TaskEnds(i, Raised("RuntimeError"))
         \/ /\ o = "raised"
            /\ TaskEnds(i, Raised("FetchException"))
         \/ /\ o = "ok"
            /\ \E r \in TaskResponses : TaskEnds(i, ExtractParse(r))
    /\ UNCHANGED <<max_pages, pc, page_num, use_hybrid, all_members, outcome,
                   result, sess_bound, kill_called, urls, plan, pages, clicks,
                   em_called, err_page,
                   no_next, applied, classified,
                   nav_pages, bad_pages, kill_outcome, classifyVars, detectVars, otherVars>>

(***************************************************************************)
(* extract (lines 180-257), called directly: one call (SpecExtract).       *)
(* e_env is the history of the call: how each fetch ended, what the        *)
(* classifier and the pattern extractor returned, what the semantic        *)
(* extractor answered, and how many fetches were issued.                   *)
(***************************************************************************)
NoResponse == [shape |-> "unasked", members |-> <<>>]

ExtractEnv(baseline, content_type, patterns, llm, response, fetches) ==
    [baseline |-> baseline, content_type |-> content_type, patterns |-> patterns,
     llm |-> llm, response |-> response, fetches |-> fetches]

ExtractIdle == ExtractEnv("unissued", "unclassified", <<>>, "unissued", NoResponse, 0)

ExtractUnused == e_pc = "idle" /\ e_out = Pending /\ e_env = ExtractIdle

ExtractInit == e_pc = "start" /\ e_out = Pending /\ e_env = ExtractIdle

\* lines 190-198: the configurations are built and the baseline fetch issued
ExtractCall ==
    /\ e_pc = "start"
    /\ e_pc' = "baseline"
    /\ e_env' = [e_env EXCEPT !.fetches = @ + 1]
    /\ UNCHANGED <<e_out, runVars, classifyVars, detectVars, patternVars, sessVars>>

\* lines 198-232: the baseline fetch returns
ExtractBaselineDone ==
    /\ e_pc = "baseline"
    /\ \E o \in FetchOutcomes :
         \/ /\ o = "failed"
            /\ e_pc' = "done"
            /\ e_out' = Raised("RuntimeError")
            /\ e_env' = [e_env EXCEPT !.baseline = o]
         \/ /\ o = "raised"
            /\ e_pc' = "done"
            /\ e_out' = Raised("FetchException")
            /\ e_env' = [e_env EXCEPT !.baseline = o]
         \/ /\ o = "ok"
            /\ \E sig \in PageSignals :
                 LET content_type == AnalyzeContentType(sig.html, sig.markdown)[1]
                     \* _extract_from_html_patterns(html), run only when embedded
                     patterns == IF content_type = "embedded" THEN PageContents
                                 ELSE {<<>>}
                 IN  \E members \in patterns :
                       IF PatternResultSuffices(content_type, members)
                         THEN /\ e_pc' = "done"
                              /\ e_out' = Returned(members)
                              /\ e_env' = [e_env EXCEPT !.baseline = o,
                                                        !.content_type = content_type,
                                                        !.patterns = members]
                         ELSE /\ e_pc' = "llm"
                              /\ e_out' = e_out
                              /\ e_env' = [e_env EXCEPT !.baseline = o,
                                                        !.content_type = content_type,
                                                        !.patterns = members,
                                                        !.fetches = @ + 1]
    /\ UNCHANGED <<runVars, classifyVars, detectVars, patternVars, sessVars>>

\* lines 232-257: the fetch with the extraction strategy returns
ExtractLlmDone ==
    /\ e_pc = "llm"
    /\ e_pc' = "done"
    /\ \E o \in FetchOutcomes :
         \/ /\ o = "failed"
            /\ e_out' = Raised("RuntimeError")
            /\ e_env' = [e_env EXCEPT !.llm = o]
         \/ /\ o = "raised"
            /\ e_out' = Raised("FetchException")
            /\ e_env' = [e_env EXCEPT !.llm = o]
         \/ /\ o = "ok"
            /\ \E r \in Responses :
                 /\ e_out' = ExtractParse(r)
                 /\ e_env' = [e_env EXCEPT !.llm = o, !.response = r]
    /\ UNCHANGED <<runVars, classifyVars, detectVars, patternVars, sessVars>>

(***************************************************************************)
(* extract_many (lines 259-279): the loop over gather's results.           *)
(***************************************************************************)
RECURSIVE CollectNoCheck(_)
CollectNoCheck(rs) ==
    IF rs = <<>> THEN Returned(<<>>)
    ELSE LET rest == CollectNoCheck(Tail(rs))
         IN  IF Head(rs).kind = "exc" \/ rest.kind = "exc"
               THEN Raised("TypeError")
               ELSE Returned(Head(rs).members \o rest.members)

RECURSIVE Collect(_)
Collect(rs) ==
    IF rs = <<>> THEN Returned(<<>>)
    ELSE LET rest == Collect(Tail(rs))
         IN  IF Head(rs).kind = "exc" THEN rest
             ELSE Returned(Head(rs).members \o rest.members)

(***************************************************************************)
(* extract_with_pagination (lines 372-588).                                *)
(***************************************************************************)
\* `if not members: break' (lines 554-557)
ZeroRecordsStopNever(members) == FALSE

ZeroRecordsStop(members) == members = <<>>

\* `if new_emails and new_emails.issubset(existing_emails)' (line 564)
IsDuplicateNoGuard(new_emails, existing_emails) ==
    new_emails \subseteq existing_emails

IsDuplicate(new_emails, existing_emails) ==
    new_emails # {} /\ new_emails \subseteq existing_emails

\* the try of lines 530-577 catches every Exception of a page step
PageExceptionPropagates == FALSE

PageExceptionCaught == TRUE

\* `except Exception: pass' around kill_session (lines 579-583)
KillErrorPropagates == FALSE

KillErrorSwallowed == TRUE

\* the URL branch ends in `return all_members' (line 479)
UrlBranchFallsThrough == FALSE

UrlBranchReturns == TRUE

\* the markup of a first page whose pagination links end at page `last'
FirstPageLinks(last) ==
    IF last = 0 THEN <<>> ELSE <<[path |-> "", query |-> << <<"page", last>> >>]>>

\* `break', and the loop test `while page_num < config.max_pages' followed by
\* `page_num += 1' and the issue of the next-page fetch (lines 513-531)
Break == [pc |-> "kill_session", page_num |-> page_num, clicks |-> clicks]

LoopTestUnbounded ==
    [pc |-> "next_page", page_num |-> page_num + 1, clicks |-> clicks + 1]

LoopTest ==
    IF page_num < max_pages
      THEN [pc |-> "next_page", page_num |-> page_num + 1, clicks |-> clicks + 1]
      ELSE Break

Goto(x) ==
    /\ pc' = x.pc
    /\ page_num' = x.page_num
    /\ clicks' = x.clicks

\* an exception leaves extract_with_pagination
Propagate ==
    /\ pc' = "done"
    /\ outcome' = "raised"
    /\ UNCHANGED <<page_num, clicks, result>>

\* an exception inside the try of the page loop (lines 574-577)
PageException ==
    IF PageExceptionCaught
      THEN Goto(Break) /\ UNCHANGED <<outcome, result>>
      ELSE Propagate

\* lines 507-513: nothing between the first page's extend and the loop test
\* reads the number of records
FirstPageStopsOnZero(members) ==
    IF ZeroRecordsStop(members) THEN Break ELSE LoopTest

AfterFirstPage(members) == LoopTest

\* lines 505-511: the first page's records, then the loop
FirstPage(members) ==
    /\ all_members' = all_members \o members
    /\ pages' = Append(pages, members)
    /\ Goto(AfterFirstPage(members))

\* lines 553-569: the terminators of a page n >= 2, then the loop
PageStep(members) ==
    /\ pages' = Append(pages, members)
    /\ IF ZeroRecordsStop(members)
         THEN Goto(Break) /\ UNCHANGED all_members
         ELSE IF IsDuplicate(EmailsOf(members), EmailsOf(all_members))
                THEN Goto(Break) /\ UNCHANGED all_members
                ELSE Goto(LoopTest) /\ all_members' = all_members \o members

RunInit ==
    /\ max_pages \in 0..MaxPagesBound
    /\ pc = "start"
    /\ page_num = 1
    /\ use_hybrid = "None"
    /\ all_members = <<>>
    /\ outcome = "running"
    /\ result = <<>>
    /\ sess_bound = FALSE
    /\ kill_called = FALSE
    /\ urls = <<>>
    /\ tpc = <<>>
    /\ results = <<>>
    /\ plan = DetectIdle
    /\ pages = <<>>
    /\ clicks = 0
    /\ em_called = FALSE
    /\ err_page = 0
    /\ touts = <<>>
    /\ inverted = FALSE
    /\ no_next = 0
    /\ applied = <<>>
    /\ classified = 0
    /\ nav_pages = {}
    /\ bad_pages = {}
    /\ kill_outcome = "uncalled"

\* line 455: the first fetch, bound to session_id, is issued
IssueInitialFetch ==
    /\ pc = "start"
    /\ pc' = "initial_fetch"
    /\ sess_bound' = TRUE
    /\ UNCHANGED <<max_pages, page_num, use_hybrid, all_members, outcome, result,
                   kill_called, urls, tpc, results, plan, pages, clicks,
                   em_called, err_page, touts, inverted,
                   no_next, applied, classified,
                   nav_pages, bad_pages, kill_outcome, classifyVars, detectVars, otherVars>>

\* lines 455-458: the first fetch fails
InitialFetchFailed ==
    /\ pc = "initial_fetch"
    /\ \E o \in {"failed", "raised"} : Propagate
    /\ err_page' = 1
    /\ UNCHANGED <<max_pages, use_hybrid, all_members, sess_bound, kill_called,
                   urls, tpc, results, plan, pages, em_called,
                   touts, inverted,
                   no_next, applied, classified,
                   nav_pages, bad_pages, kill_outcome, classifyVars, detectVars, otherVars>>

\* lines 461-474: URL pagination detected, extract_many is called
InitialFetchUrlPlan ==
    /\ pc = "initial_fetch"
    /\ \E last \in 0..MaxLastPage :
         LET page_urls == DetectUrlPagination(FirstPageLinks(last), BaseUrl)
             urls_to_fetch == Take(page_urls.urls, max_pages)
         IN  /\ Truthy(page_urls)
             /\ plan' = page_urls
             /\ urls' = urls_to_fetch
             /\ tpc' = [i \in 1..Len(urls_to_fetch) |-> "baseline"]
             /\ results' = [i \in 1..Len(urls_to_fetch) |-> Pending]
             /\ touts' = [i \in 1..Len(urls_to_fetch) |-> Pending]
    /\ em_called' = TRUE
    /\ pc' = "fanout"
    /\ UNCHANGED <<max_pages, page_num, use_hybrid, all_members, outcome, result,
                   sess_bound, kill_called, pages, clicks, err_page,
                   inverted,
                   no_next, applied, classified,
                   nav_pages, bad_pages, kill_outcome, classifyVars, detectVars, otherVars>>

\* lines 461-511: no URL pagination; the strategy is fixed and, under the
\* pattern strategy, the first page is extracted
InitialFetchInteractive ==
    /\ pc = "initial_fetch"
    /\ \E last \in 0..MaxLastPage :
         LET page_urls == DetectUrlPagination(FirstPageLinks(last), BaseUrl)
         IN  /\ ~Truthy(page_urls)
             /\ plan' = page_urls
    /\ \E sig \in PageSignals :
         LET content_type == AnalyzeContentType(sig.html, sig.markdown)[1]
         IN  /\ classified' = classified + 1
             /\ use_hybrid' = (IF content_type = "embedded" THEN "True" ELSE "False")
             /\ IF content_type = "embedded"
                  THEN /\ applied' = Append(applied, "pattern")
                       /\ \E members \in PageContents : FirstPage(members)
                  ELSE /\ applied' = Append(applied, "semantic")
                       /\ pc' = "first_llm"
                       /\ UNCHANGED <<page_num, clicks, all_members, pages>>
    /\ UNCHANGED <<max_pages, outcome, result, sess_bound, kill_called, urls, tpc,
                   results, em_called, err_page, touts, inverted, no_next,
                   nav_pages, bad_pages, kill_outcome, classifyVars, detectVars, otherVars>>

\* lines 502-511: the first page's fetch with the extraction strategy returns
FirstLlmDone ==
    /\ pc = "first_llm"
    /\ \E o \in FetchOutcomes :
         \/ /\ o = "raised"
            /\ Propagate
            /\ err_page' = 1
            /\ UNCHANGED <<all_members, pages, bad_pages>>
         \/ /\ o = "failed"
            /\ FirstPage(ParseExtractedContent([shape |-> "none", members |-> <<>>]).members)
            /\ err_page' = 1
            /\ UNCHANGED <<outcome, result, bad_pages>>
         \/ /\ o = "ok"
            /\ \E r \in Responses :
                 LET parsed == ParseExtractedContent(r)
                 IN  /\ bad_pages' = bad_pages \cup
                          (IF UnexpectedStructure(r) THEN {page_num} ELSE {})
                     /\ IF parsed.kind = "exc"
                          THEN Propagate /\ UNCHANGED <<all_members, pages>>
                          ELSE FirstPage(parsed.members) /\ UNCHANGED <<outcome, result>>
            /\ UNCHANGED err_page
    /\ UNCHANGED <<max_pages, use_hybrid, sess_bound, kill_called, urls, tpc,
                   results, plan, em_called, touts, inverted,
                   no_next, applied, classified,
                   nav_pages, kill_outcome, classifyVars, detectVars, otherVars>>

\* `if use_hybrid:' (line 539)
PageUsesPatternsInverted == use_hybrid # "True"

PageUsesPatterns == use_hybrid = "True"

\* what the session shows after js_click_next and js_wait_for_change (lines
\* 397-421): a click that found a control brings any content; with no
\* control nothing is clicked, __lastContentHash is not refreshed, and the
\* wait ends at once on the unchanged page
ShownAfterClick(found) ==
    IF found THEN PageContents ELSE {pages[Len(pages)]}

\* next_config (lines 517-525) and llm_config (lines 543-549): both name the
\* session, only next_config is js_only
NextConfig == [session_id |-> TRUE, js_only |-> TRUE]

LlmConfig == [session_id |-> TRUE, js_only |-> FALSE]

\* crawler.arun(url, config) loads url in the session unless config is js_only
Navigates(config) == ~config.js_only

\* lines 531-540, 553-577: the next-page fetch returns
NextPageDone ==
    /\ pc = "next_page"
    /\ \E o \in FetchOutcomes :
         \/ /\ o = "failed"
            /\ Goto(Break)
            /\ err_page' = page_num
            /\ UNCHANGED <<all_members, pages, outcome, result, no_next, applied,
                           nav_pages>>
         \/ /\ o = "raised"
            /\ PageException
            /\ err_page' = page_num
            /\ UNCHANGED <<all_members, pages, no_next, applied, nav_pages>>
         \/ /\ o = "ok"
            /\ \E found \in BOOLEAN :
                 /\ no_next' = (IF found THEN no_next ELSE page_num)
                 /\ IF PageUsesPatterns
                      THEN /\ applied' = Append(applied, "pattern")
                           /\ \E members \in ShownAfterClick(found) : PageStep(members)
                           /\ UNCHANGED nav_pages
                      ELSE /\ applied' = Append(applied, "semantic")
                           /\ nav_pages' = nav_pages \cup
                                (IF Navigates(LlmConfig) THEN {page_num} ELSE {})
                           /\ pc' = "page_llm"
                           /\ UNCHANGED <<page_num, clicks, all_members, pages>>
            /\ UNCHANGED <<err_page, outcome, result>>
    /\ UNCHANGED <<max_pages, use_hybrid, sess_bound, kill_called, urls, tpc,
                   results, plan, em_called, touts, inverted, classified,
                   bad_pages, kill_outcome, classifyVars, detectVars, otherVars>>

\* line 531: the caller cancels the call while the next-page fetch is awaited;
\* CancelledError is no Exception, passes the handler of line 574 and leaves
\* extract_with_pagination
CancelNextPage ==
    /\ pc = "next_page"
    /\ pc' = "done"
    /\ outcome' = "cancelled"
    /\ UNCHANGED <<max_pages, page_num, use_hybrid, all_members, result,
                   sess_bound, kill_called, urls, tpc, results, plan, pages,
                   clicks, em_called, err_page, touts, inverted,
                   no_next, applied, classified,
                   nav_pages, bad_pages, kill_outcome, classifyVars, detectVars, otherVars>>

\* lines 541-577: a later page's fetch with the extraction strategy returns
PageLlmDone ==
    /\ pc = "page_llm"
    /\ \E o \in FetchOutcomes :
         \/ /\ o = "raised"
            /\ PageException
            /\ err_page' = page_num
            /\ UNCHANGED <<all_members, pages, bad_pages>>
         \/ /\ o = "failed"
            /\ PageStep(ParseExtractedContent([shape |-> "none", members |-> <<>>]).members)
            /\ err_page' = page_num
            /\ UNCHANGED <<outcome, result, bad_pages>>
         \/ /\ o = "ok"
            /\ \E r \in Responses :
                 LET parsed == ParseExtractedContent(r)
                 IN  /\ bad_pages' = bad_pages \cup
                          (IF UnexpectedStructure(r) THEN {page_num} ELSE {})
                     /\ IF parsed.kind = "exc"
                          THEN PageException /\ UNCHANGED <<all_members, pages>>
                          ELSE PageStep(parsed.members) /\ UNCHANGED <<outcome, result>>
            /\ UNCHANGED err_page
    /\ UNCHANGED <<max_pages, use_hybrid, sess_bound, kill_called, urls, tpc,
                   results, plan, em_called, touts, inverted,
                   no_next, applied, classified,
                   nav_pages, kill_outcome, classifyVars, detectVars, otherVars>>

\* lines 579-588: kill_session returns or raises, then `return all_members'
KillSession ==
    /\ pc = "kill_session"
    /\ kill_called' = TRUE
    /\ pc' = "done"
    /\ \E ks \in {"ok", "raised"} :
          /\ kill_outcome' = ks
          /\ IF ks = "raised" /\ ~KillErrorSwallowed
               THEN outcome' = "raised" /\ UNCHANGED result
               ELSE outcome' = "returned" /\ result' = all_members
    /\ UNCHANGED <<max_pages, page_num, use_hybrid, all_members, sess_bound,
                   urls, tpc, results, plan, pages, clicks, em_called, err_page,
                   touts, inverted,
                   no_next, applied, classified,
                   nav_pages, bad_pages, classifyVars, detectVars, otherVars>>

\* lines 270-279 and 474-479: gather has every result; extract_many returns
\* and the URL branch returns its list
FanoutDone ==
    /\ pc = "fanout"
    /\ \A i \in 1..Len(tpc) : tpc[i] = "done"
    /\ LET merged == Collect(results)
       IN  IF merged.kind = "exc"
             THEN Propagate /\ UNCHANGED all_members
             ELSE /\ all_members' = merged.members
                  /\ IF UrlBranchReturns
                       THEN /\ pc' = "done"
                            /\ outcome' = "returned"
                            /\ result' = merged.members
                            /\ UNCHANGED <<page_num, clicks>>
                       ELSE Goto(LoopTest) /\ UNCHANGED <<outcome, result>>
    /\ UNCHANGED <<max_pages, use_hybrid, sess_bound, kill_called, urls, tpc,
                   results, plan, pages, em_called, err_page,
                   touts, inverted,
                   no_next, applied, classified,
                   nav_pages, bad_pages, kill_outcome, classifyVars, detectVars, otherVars>>

(***************************************************************************)
(* The session of extract_with_pagination across several calls             *)
(* (SpecSessions).  Each call runs on one crawler object; the calls        *)
(* interleave at their awaits, so they overlap or follow one another.      *)
(* Only what touches the session is kept of a call: the session_id it      *)
(* computes, the fetches it issues and the session each is bound to, and   *)
(* its kill_session.                                                       *)
(***************************************************************************)
\* the crawler objects, by id(self)
Crawlers == {"crawler_a", "crawler_b"}

NoSession == <<"none", "">>

\* line 393: session_id = f"staff_pagination_{id(self)}"
SessionId(crawler) == <<"staff_pagination", crawler>>

\* lines 192-195 and 225-230: the configurations of extract name no session
ExtractSession == NoSession

Fetch(r, kind, session) ==
    [run |-> r, kind |-> kind, session |-> session, after_kill |-> session \in s_killed]

SessInit ==
    /\ s_run \in [1..NumRuns -> [crawler : Crawlers, pc : {"start"}, page_num : {1},
                                 session_id : {NoSession}]]
    /\ s_killed = {}
    /\ s_fetches = {}

\* lines 391-455: session_id is computed and the first fetch issued with it
SessCall(r) ==
    /\ s_run[r].pc = "start"
    /\ LET session_id == SessionId(s_run[r].crawler)
       IN  /\ s_run' = [s_run EXCEPT ![r].pc = "initial_fetch",
                                     ![r].session_id = session_id]
           /\ s_fetches' = s_fetches \cup {Fetch(r, "initial", session_id)}
    /\ UNCHANGED <<s_killed, runVars, classifyVars, detectVars, patternVars, extractVars>>

\* lines 457-458: the first fetch fails and the call raises
SessInitialFailed(r) ==
    /\ s_run[r].pc = "initial_fetch"
    /\ s_run' = [s_run EXCEPT ![r].pc = "done"]
    /\ UNCHANGED <<s_killed, s_fetches, runVars, classifyVars, detectVars,
                   patternVars, extractVars>>

\* lines 461-479: URL pagination; the extract tasks fetch, the call returns
SessUrlPlan(r) ==
    /\ s_run[r].pc = "initial_fetch"
    /\ s_run' = [s_run EXCEPT ![r].pc = "done"]
    /\ s_fetches' = s_fetches \cup {Fetch(r, "extract", ExtractSession)}
    /\ UNCHANGED <<s_killed, runVars, classifyVars, detectVars, patternVars, extractVars>>

\* lines 481-511: no URL pagination; under the semantic strategy the first
\* page is fetched again, bound to the session
SessInteractive(r) ==
    /\ s_run[r].pc = "initial_fetch"
    /\ s_run' = [s_run EXCEPT ![r].pc = "loop"]
    /\ \E hybrid \in BOOLEAN :
         s_fetches' = s_fetches \cup
            (IF hybrid THEN {} ELSE {Fetch(r, "semantic", s_run[r].session_id)})
    /\ UNCHANGED <<s_killed, runVars, classifyVars, detectVars, patternVars, extractVars>>

\* lines 513-551: one more page: the next-page fetch and, under the semantic
\* strategy, the fetch with the extraction strategy, both bound to the session
SessNextPage(r) ==
    /\ s_run[r].pc = "loop"
    /\ s_run[r].page_num < MaxSessPages
    /\ s_run' = [s_run EXCEPT ![r].page_num = @ + 1]
    /\ \E hybrid \in BOOLEAN :
         s_fetches' = s_fetches \cup {Fetch(r, "next_page", s_run[r].session_id)} \cup
            (IF hybrid THEN {} ELSE {Fetch(r, "semantic", s_run[r].session_id)})
    /\ UNCHANGED <<s_killed, runVars, classifyVars, detectVars, patternVars, extractVars>>

\* lines 579-588: the loop is left, kill_session is called, the call returns
SessKill(r) ==
    /\ s_run[r].pc = "loop"
    /\ s_run' = [s_run EXCEPT ![r].pc = "done"]
    /\ s_killed' = s_killed \cup {s_run[r].session_id}
    /\ UNCHANGED <<s_fetches, runVars, classifyVars, detectVars, patternVars, extractVars>>

(***************************************************************************)
(* The specifications.                                                     *)
(***************************************************************************)
RunIdle ==
    /\ max_pages = 0 /\ pc = "idle" /\ page_num = 1 /\ use_hybrid = "None"
    /\ all_members = <<>> /\ outcome = "running" /\ result = <<>>
    /\ sess_bound = FALSE /\ kill_called = FALSE
    /\ urls = <<>> /\ tpc = <<>> /\ results = <<>>
    /\ plan = DetectIdle /\ pages = <<>> /\ clicks = 0
    /\ em_called = FALSE /\ err_page = 0 /\ touts = <<>> /\ inverted = FALSE
    /\ no_next = 0 /\ applied = <<>> /\ classified = 0
    /\ nav_pages = {} /\ bad_pages = {} /\ kill_outcome = "uncalled"

ClassifyUnused == c_in = [html |-> 0, markdown |-> NoMarkdown] /\ c_out = ClassifyIdle

DetectUnused == d_in = <<>> /\ d_out = DetectIdle

PatternUnused == p_in = <<>> /\ p_out = PatternIdle

SessUnused == s_run = <<>> /\ s_killed = {} /\ s_fetches = {}

OthersUnused == PatternUnused /\ ExtractUnused /\ SessUnused

\* one call of extract_with_pagination
Init == RunInit /\ ClassifyUnused /\ DetectUnused /\ OthersUnused

Next ==
    \/ IssueInitialFetch
    \/ InitialFetchFailed
    \/ InitialFetchUrlPlan
    \/ InitialFetchInteractive
    \/ FirstLlmDone
    \/ NextPageDone
    \/ CancelNextPage
    \/ PageLlmDone
    \/ KillSession
    \/ \E i \in 1..MaxPagesBound : TaskBaselineDone(i)
    \/ \E i \in 1..MaxPagesBound : TaskLlmDone(i)
    \/ FanoutDone

Spec == Init /\ [][Next]_vars

\* an interactive run: a call whose first page shows no URL pagination, when
\* every awaited fetch returns and the event loop keeps running the coroutine
NextInteractive ==
    \/ IssueInitialFetch
    \/ InitialFetchFailed
    \/ InitialFetchInteractive
    \/ FirstLlmDone
    \/ NextPageDone
    \/ CancelNextPage
    \/ PageLlmDone
    \/ KillSession

SpecLive == Init /\ [][NextInteractive]_vars /\ WF_vars(NextInteractive)

\* one call of _analyze_content_type
InitClassify == RunIdle /\ ClassifyInit /\ DetectUnused /\ OthersUnused

NextClassify == ClassifyCall

SpecClassify == InitClassify /\ [][NextClassify]_vars

\* one call of _detect_url_pagination
InitDetect == RunIdle /\ ClassifyUnused /\ DetectInit /\ OthersUnused

NextDetect == DetectCall

SpecDetect == InitDetect /\ [][NextDetect]_vars

\* one call of _extract_from_html_patterns
InitPattern ==
    RunIdle /\ ClassifyUnused /\ DetectUnused /\ PatternInit /\ ExtractUnused /\ SessUnused

NextPattern == PatternCall

SpecPattern == InitPattern /\ [][NextPattern]_vars

\* one direct call of extract
InitExtract ==
    RunIdle /\ ClassifyUnused /\ DetectUnused /\ PatternUnused /\ ExtractInit /\ SessUnused

NextExtract == ExtractCall \/ ExtractBaselineDone \/ ExtractLlmDone

SpecExtract == InitExtract /\ [][NextExtract]_vars

\* several calls of extract_with_pagination, on the same or different crawlers
InitSessions ==
    RunIdle /\ ClassifyUnused /\ DetectUnused /\ PatternUnused /\ ExtractUnused /\ SessInit

NextSessions ==
    \E r \in 1..NumRuns :
        \/ SessCall(r)
        \/ SessInitialFailed(r)
        \/ SessUrlPlan(r)
        \/ SessInteractive(r)
        \/ SessNextPage(r)
        \/ SessKill(r)

SpecSessions == InitSessions /\ [][NextSessions]_vars

(***************************************************************************)
(* Properties.                                                             *)
(***************************************************************************)
Ended == pc \in {"kill_session", "done"}

\* the records of pages 1..n, in page order
RecordsUpTo(n) == Flatten(SubSeq(pages, 1, n))

IsPrefix(s, t) == Len(s) <= Len(t) /\ SubSeq(t, 1, Len(s)) = s

\* C1: once the session-bound initial fetch has been issued, kill_session has
\* been called for the session by the time extract_with_pagination returns
\* or raises, on every exit path.
C1_KillSessionOnEveryExit ==
    (sess_bound /\ outcome # "running") => kill_called

\* C2: in an interactive run, a page n >= 2 that yields zero records is the
\* last page: the run has ended, exactly the n-1 next-page fetches that led to
\* it were issued, and the list returned is the concatenation of the records
\* of pages 1..n-1.
C2_ZeroRecordsEndsRun ==
    \A n \in 2..Len(pages) :
        pages[n] = <<>> =>
            /\ n = Len(pages)
            /\ Ended
            /\ clicks = n - 1
            /\ all_members = RecordsUpTo(n - 1)
            /\ (pc = "done" => outcome = "returned" /\ result = RecordsUpTo(n - 1))

\* a run that returned after page 3 yielded nothing
C2_Witness ==
    /\ pc = "done" /\ outcome = "returned"
    /\ Len(pages) = 3 /\ pages[3] = <<>>
    /\ pages[1] # <<>> /\ pages[2] # <<>>
    /\ result = pages[1] \o pages[2]

\* the emails of page n are non-empty and all among those of pages 1..n-1
RepeatsEarlierEmails(n) ==
    /\ EmailsOf(pages[n]) # {}
    /\ EmailsOf(pages[n]) \subseteq EmailsOf(RecordsUpTo(n - 1))

\* C3: in an interactive run, a page n >= 2 with at least one record is
\* discarded, and ends the run, exactly when its emails are a non-empty subset
\* of the emails of pages 1..n-1; otherwise (a page without emails included)
\* all its records are appended in page order.
C3_DuplicatePageRule ==
    \A n \in 2..Len(pages) :
        pages[n] # <<>> =>
            IF RepeatsEarlierEmails(n)
              THEN /\ n = Len(pages)
                   /\ Ended
                   /\ clicks = n - 1
                   /\ all_members = RecordsUpTo(n - 1)
              ELSE IsPrefix(RecordsUpTo(n), all_members)

\* page 2 has records but no email and was appended; page 3 repeats an email
\* of page 1 and was discarded
C3_Witness ==
    /\ pc = "done" /\ outcome = "returned"
    /\ Len(pages) = 3
    /\ pages[2] # <<>> /\ EmailsOf(pages[2]) = {}
    /\ RepeatsEarlierEmails(3)
    /\ result = pages[1] \o pages[2]

\* pages whose content has been extracted so far, in either mode
TaskExtracted(i) == tpc[i] = "llm" \/ touts[i].kind = "ok"

PagesExtracted ==
    Len(pages) + Cardinality({i \in 1..Len(tpc) : TaskExtracted(i)})

\* C4: for every max_pages and in both pagination modes, the number of pages
\* whose content is extracted in one run never exceeds max_pages.
C4_ExtractedWithinMaxPages == PagesExtracted <= max_pages

ListOf(i) == IF touts[i].kind = "ok" THEN touts[i].members ELSE <<>>

InUrlOrder == Flatten([i \in 1..Len(urls) |-> ListOf(i)])

\* C6: extract_many returns the concatenation of the per-URL record lists in
\* the order of the input URLs, whatever the order in which the extractions
\* complete.
C6_FanoutInInputOrder ==
    (em_called /\ pc = "done") => result = InUrlOrder

\* two URLs yielded different records, the later one completing first
C6_Witness ==
    /\ em_called /\ pc = "done" /\ inverted
    /\ ListOf(1) # <<>> /\ ListOf(2) # <<>> /\ ListOf(1) # ListOf(2)
    /\ result = InUrlOrder

\* the records of the i-th URL stand in the result, after those of the URLs
\* before it
Contributes(i) ==
    LET before == Len(Flatten([j \in 1..(i - 1) |-> ListOf(j)]))
    IN  /\ Len(result) >= before + Len(ListOf(i))
        /\ SubSeq(result, before + 1, before + Len(ListOf(i))) = ListOf(i)

\* C7: in extract_many a failed extraction never blocks the others, which can
\* still complete; extract_many never raises; failed URLs contribute nothing,
\* and when every URL fails the result is the empty list.
C7_FanoutIsolatesFailures ==
    em_called =>
        /\ outcome # "raised"
        /\ pc = "fanout" =>
              /\ \A i \in 1..Len(tpc) :
                    tpc[i] # "done" => ENABLED (TaskBaselineDone(i) \/ TaskLlmDone(i))
              /\ (\A i \in 1..Len(tpc) : tpc[i] = "done") => ENABLED FanoutDone
        /\ pc = "done" =>
              /\ outcome = "returned"
              /\ \A i \in 1..Len(urls) : touts[i].kind = "ok" => Contributes(i)
              /\ Len(result) = Len(InUrlOrder)
              /\ (\A i \in 1..Len(urls) : touts[i].kind = "exc") => result = <<>>

\* of three URLs the first and the last failed; the records of the second were
\* returned
C7_Witness ==
    /\ em_called /\ pc = "done" /\ outcome = "returned"
    /\ Len(urls) = 3
    /\ touts[1].kind = "exc" /\ touts[3].kind = "exc"
    /\ touts[2].kind = "ok" /\ touts[2].members # <<>>
    /\ result = touts[2].members

\* C8: the two pagination plans are never mixed: with a URL sequence only the
\* fan-out runs and no next-page fetch is issued nor any page extracted by the
\* stepping code; without one, extract_many is never called.
C8_PlansNeverMixed ==
    /\ plan.found =>
          /\ clicks = 0 /\ pages = <<>> /\ use_hybrid = "None"
          /\ pc \in {"fanout", "done"}
          /\ em_called
    /\ plan = NoUrls =>
          /\ ~em_called
          /\ tpc = <<>>
          /\ pc # "fanout"

\* a URL plan whose fan-out returned records
C8_Witness ==
    /\ plan.found /\ pc = "done" /\ outcome = "returned"
    /\ Len(urls) >= 2 /\ result # <<>> /\ clicks = 0

IsPageLink(href) ==
    \E j \in 1..Len(href.query) :
        LowerKey(href.query[j][1]) \in PatternKeys(1) \cup PatternKeys(2) \cup PatternKeys(3)

PageNumberOf(href) ==
    href.query[CHOOSE j \in 1..Len(href.query) :
        LowerKey(href.query[j][1]) \in PatternKeys(1) \cup PatternKeys(2) \cup PatternKeys(3)][2]

\* C10: _detect_url_pagination reports no URL pagination exactly when no
\* page-number link is found or the largest page number is <= 1; otherwise
\* it returns exactly max URLs for pages 1..max, the i-th being an observed
\* URL of page i when there is one and otherwise a URL whose page-number
\* parameter equals i.
C10_DetectorSequence ==
    d_out # DetectIdle =>
        LET links == {d_in[j] : j \in {k \in 1..Len(d_in) : IsPageLink(d_in[k])}}
            nums == {PageNumberOf(l) : l \in links}
            none == nums = {} \/ \A n \in nums : n <= 1
            observed(i) == {UrlJoin(BaseUrl, l) : l \in {x \in links : PageNumberOf(x) = i}}
        IN  /\ d_out = NoUrls <=> none
            /\ ~none =>
                  /\ d_out.found
                  /\ \A n \in nums : n <= Len(d_out.urls)
                  /\ Len(d_out.urls) \in nums
                  /\ \A i \in 1..Len(d_out.urls) :
                        IF observed(i) # {} THEN d_out.urls[i] \in observed(i)
                        ELSE IsPageLink(d_out.urls[i]) /\ PageNumberOf(d_out.urls[i]) = i

(***************************************************************************)
(* Properties of _extract_from_html_patterns (SpecPattern).                *)
(***************************************************************************)
PatternReturned == p_out # PatternIdle

RuleRank(rule) == CASE rule = "aria" -> 0 [] rule = "mailto" -> 1 [] rule = "json" -> 2

\* the fragments of the markup a rule's expression matches
MatchesOf(rule) == {i \in 1..Len(p_in) : p_in[i].kind = rule}

\* an aria-label match the rule takes a record from when its address is new
AriaAccepts(m) == Len(Strip(m.name)) >= 2

C12_GenericMailboxNeverEmitted ==
    PatternReturned => \A i \in 1..Len(p_out) : ~IsGeneric(p_out[i].email)

\* C13: every returned record, whichever rule emitted it, has a name that
\* keeps at least 2 characters once a leading honorific is removed.
C13_NameOutlastsHonorific ==
    PatternReturned =>
        \A i \in 1..Len(p_out) : Len(Strip(RemoveHonorific(p_out[i].name))) >= 2

(***************************************************************************)
(* Properties of a direct call of extract (SpecExtract).                   *)
(***************************************************************************)
ExtractEnded == e_pc = "done"

\* the shapes of semantic response the parse reads records from
ExpectedShapes == {"dict", "list_of_dict", "flat_list"}

FetchFailed == e_env.baseline = "failed" \/ e_env.llm = "failed"

Answered == e_env.llm = "ok"

SemanticInvoked == e_pc = "llm" \/ e_env.llm # "unissued"

Classified == e_env.content_type # "unclassified"

\* C15: once the page is classified, the semantic extractor is invoked
\* exactly when the page is not embedded or the pattern extractor returned no
\* record; an embedded page with pattern records returns exactly those
\* records after a single fetch.
C15_SemanticOnlyWhenPatternsFail ==
    Classified =>
        /\ SemanticInvoked <=>
              (e_env.content_type # "embedded" \/ e_env.patterns = <<>>)
        /\ (e_env.content_type = "embedded" /\ e_env.patterns # <<>>) =>
              /\ ExtractEnded
              /\ e_out = Returned(e_env.patterns)
              /\ e_env.fetches = 1

C15_Witness ==
    /\ ExtractEnded
    /\ e_env.content_type = "embedded"
    /\ Len(e_env.patterns) = MaxRecs
    /\ e_out = Returned(e_env.patterns)
    /\ e_env.fetches = 1

(***************************************************************************)
(* Properties of the session across calls (SpecSessions).                  *)
(***************************************************************************)
Started(r) == s_run[r].pc # "start"

\* C17: the fetches of the fan-out extract tasks are bound to no session; two
\* calls on the same crawler object never use the same session_id; and no
\* fetch is issued bound to a session kill_session was already called for.
C17_SessionOwnedByOneRun ==
    /\ \A f \in s_fetches : f.kind = "extract" => f.session = NoSession
    /\ \A r1, r2 \in DOMAIN s_run :
          (r1 # r2 /\ Started(r1) /\ Started(r2)
             /\ s_run[r1].crawler = s_run[r2].crawler)
          => s_run[r1].session_id # s_run[r2].session_id
    /\ \A f \in s_fetches : f.session # NoSession => ~f.after_kill

C18_CancelStillKillsSession ==
    outcome = "cancelled" => kill_called

\* C19: once a next-page click found no control on page n, the run is over,
\* no page n has been extracted and the records are those of pages 1..n-1.
C19_NoControlEndsRun ==
    no_next # 0 =>
        /\ Ended
        /\ Len(pages) < no_next
        /\ all_members = RecordsUpTo(no_next - 1)

Strategy(hybrid) == IF hybrid = "True" THEN "pattern" ELSE "semantic"

\* C20: an interactive run calls the classifier once, before its first page is
\* extracted, and every page of the run is extracted with the strategy that
\* call fixed.
C20_StrategyFixedOnFirstPage ==
    /\ classified <= 1
    /\ (applied # <<>> \/ pages # <<>>) => (classified = 1 /\ use_hybrid # "None")
    /\ \A n \in 1..Len(applied) : applied[n] = Strategy(use_hybrid)
    /\ Len(pages) <= Len(applied)

C20_Witness ==
    /\ pc = "done"
    /\ classified = 1
    /\ Len(applied) = MaxPagesBound
    /\ Len(pages) = MaxPagesBound
    /\ \E n \in 2..Len(pages) : EmailsOf(pages[n]) # EmailsOf(pages[1])

\* C21: every page n >= 2 is extracted from what the session shows after the
\* next-page action: no fetch that navigates the session is issued between
\* that action and the extraction, under either strategy.
C21_ExtractsTheDisplayedPage ==
    \A n \in 2..Len(applied) : n \notin nav_pages

\* C22: under the semantic strategy a response without any of the expected
\* structures gives the empty list for its page, on page 1 as on every later
\* page, and nothing is raised out of extract_with_pagination.
C22_UnexpectedResponseGivesEmptyPage ==
    \A n \in bad_pages :
        /\ outcome # "raised"
        /\ Len(pages) >= n => pages[n] = <<>>

\* C23: a failure of kill_session at the end of an interactive run is not
\* propagated: once kill_session was called, whether it succeeded or raised,
\* the run returns, and what it returns is the list merged from the pages.
C23_TeardownFailureSwallowed ==
    kill_outcome # "uncalled" =>
        /\ outcome = "returned"
        /\ result = all_members

C23_Witness ==
    /\ kill_outcome = "raised"
    /\ outcome = "returned"
    /\ Len(pages) >= 2
    /\ result # <<>>
\* a JSON match the rule takes a record from when its address is new
JsonAccepts(m) == Len(Strip(RemoveHonorific(m.name))) >= 2

\* C24: an address is marked as seen only when a record with it is emitted:
\* the addresses marked at the end of the scan are those of the returned
\* records, so every JSON match with a valid name has a record with its
\* address in the output, whatever an earlier mailto match was rejected for.
C24_SeenOnlyWhenEmitted ==
    PatternReturned =>
        /\ SeenEmails(p_in) = {p_out[i].email : i \in 1..Len(p_out)}
        /\ \A j \in MatchesOf("json") :
              JsonAccepts(p_in[j]) =>
                 \E i \in 1..Len(p_out) : p_out[i].email = Lower(p_in[j].email)
\* C25: the zero-records terminator does not apply to page 1: when the first
\* page of an interactive run yields zero records and max_pages > 1 the run
\* goes on to issue a next-page action, and a first page classified embedded
\* is never handed to the semantic extractor, whatever the patterns found.
C25_EmptyFirstPageDoesNotEndRun ==
    /\ (pages # <<>> /\ pages[1] = <<>> /\ max_pages > 1) => clicks >= 1
    /\ (applied # <<>> /\ applied[1] = "pattern") =>
          /\ pc # "first_llm"
          /\ Len(applied) = 1 => (pages # <<>> /\ 1 \notin bad_pages)

C25_Witness ==
    /\ applied # <<>> /\ applied[1] = "pattern"
    /\ max_pages > 1
    /\ Len(pages) >= 2
    /\ pages[1] = <<>>
    /\ pages[2] # <<>>
    /\ outcome = "returned"
    /\ result = pages[2]
====
